---- MODULE Spec2Model ----
(***************************************************************************)
(* Model of code/web_scraping_yahoo.py: main() drives a browser session    *)
(* through the paginated "gainers" list (load_with_retry, extract_rows),   *)
(* builds the ranked list, fetches monthly adjusted closes in batches      *)
(* (fetch_adj), checks the history length and computes the portfolio.      *)
(*                                                                         *)
(* A list entry is the pair <<symbol, name>>; symbols and names are        *)
(* numbers.  A price cell holds the number of the observation (date) it    *)
(* was taken from, 0 standing for a missing value (NaN).                   *)
(***************************************************************************)
EXTENDS Integers, Sequences, FiniteSets, TLC

VARIABLES
    pc,          \* position of main()
    driver,      \* "open" after build_driver(), "quit" after d.quit()
    quits,       \* number of d.quit() calls
    gets,        \* the calls of load_with_retry in which d.get() was called
    attempt,     \* load_with_retry: attempts made by the call in progress
    nav,         \* load_with_retry: outcome of the last attempt
    ret,         \* load_with_retry: value returned, "none" while it runs
    ok1, ok2, ok3, \* results of the three calls, "unset" before the call
    page1, page2, allrows, unique,
    accumulated, \* data as it stands when line 122 is reached
    data, df,
    exported,    \* artifacts written so far
    hist,        \* the price history the source serves during this run
    syms, i, tries, reqs, raw, all_adj,
    skipped,     \* offsets of the batches fetch_adj skipped
    merged,      \* offsets of the batches fetch_adj merged
    prices, computed, months,
    err,         \* exception caught by main()'s handler, "none" if none
    exitStatus   \* status passed to sys.exit, 0 if it was never called

vars == <<pc, driver, quits, gets, attempt, nav, ret, ok1, ok2, ok3, page1, page2, allrows,
          unique, accumulated, data, df, exported, hist, syms, i, tries,
          reqs, raw, all_adj, skipped, merged, prices, computed, months,
          err, exitStatus>>

listVars == <<page1, page2, allrows, unique, accumulated, data, df>>
loadVars == <<attempt, nav, ret>>
fetchVars == <<syms, i, tries, reqs, raw, all_adj, skipped, merged>>
tailVars == <<prices, computed, months>>

-----------------------------------------------------------------------------
(* Program constants *)

TARGET == 50          \* len(data) < 50, len(unique) == 50, head(50)
PAGE == 25            \* count=25, extract_rows(d)[:25]
TRIES == 3            \* load_with_retry(..., tries=3)
BATCH == 20           \* range(0, len(symbols), 20)
DL_TRIES == 2         \* while tries < 2
KEEP == 12            \* tail(12)
MIN_POINTS == 7       \* prices.shape[0] < 7
ANCHOR == 5           \* idx[5:]

(* Bounds of the inputs *)

Overlap == 5          \* entries page 2 repeats from page 1
Dropped == 5          \* rendered rows extract_rows leaves out
Extra == 2            \* rows rendered beyond the requested count
Repeats == 1          \* rows of a page that repeat an earlier row of it
MaxMonth == 13        \* months the source has observations for
ShortRows == 5        \* months of a short history
RecentRows == 9       \* months of a history that starts within the year
Cut == 20             \* symbols up to Cut have the older history
ObsPerMonth == 2      \* observations the source may hold for one month

-----------------------------------------------------------------------------
(* Sequences *)

Range(s) == {s[k] : k \in 1..Len(s)}

Min(a, b) == IF a < b THEN a ELSE b

Take(s, n) == SubSeq(s, 1, Min(n, Len(s)))

NoDuplicates(s) == \A a, b \in 1..Len(s) : a # b => s[a] # s[b]

\* position of the first occurrence of e in s
FirstPos(s, e) ==
    LET K == {k \in 1..Len(s) : s[k] = e}
    IN CHOOSE k \in K : \A j \in K : k <= j

-----------------------------------------------------------------------------
(* The pages the site may render.  Rows(start, n, m, rev, nm) is a page of *)
(* n rows over m consecutive symbols from start, in rank order or          *)
(* reversed, every row carrying name nm.                                   *)

Rows(start, n, m, rev, nm) ==
    [k \in 1..n |-> <<start + ((IF rev THEN n - k ELSE k - 1) % m), nm>>]

Page1Rows ==
    { Rows(1, PAGE + Extra, PAGE + Extra, FALSE, 0),
      Rows(1, PAGE, PAGE - Repeats, FALSE, 0),
      Rows(1, PAGE - Dropped, PAGE - Dropped, FALSE, 0) }

Page2Rows ==
    { Rows(PAGE + 1, PAGE, PAGE, FALSE, 0),
      Rows(PAGE + 1 - Overlap, PAGE, PAGE, FALSE, 0),
      Rows(1, PAGE, PAGE, FALSE, 1) }

FallbackRows ==
    { Rows(1, 2 * TARGET, 2 * TARGET, FALSE, 0),
      Rows(2 * Overlap + 1, TARGET, TARGET - Repeats, FALSE, 0),
      Rows(1, TARGET, TARGET - Overlap, FALSE, 0),
      Rows(1, TARGET + 2 * Overlap, TARGET + 2 * Overlap, TRUE, 0) }

-----------------------------------------------------------------------------
(* List acquisition: the loops of main() *)

\* positions of the rows that repeat no earlier row
FirstOccurrences(rows) ==
    {k \in 1..Len(rows) : \A j \in 1..(k - 1) : rows[j] # rows[k]}

\* the rows at the positions K, in their order
Pick(rows, K) ==
    [n \in 1..Cardinality(K) |->
        rows[CHOOSE k \in K : Cardinality({j \in K : j <= k}) = n]]

\* lines 116-120: the rows of page2 not seen yet are appended, in page
\* order, while len(data) < 50
AppendNew(rows, acc) ==
    LET fresh == {k \in FirstOccurrences(rows) : rows[k] \notin Range(acc)}
        room == IF Len(acc) < TARGET THEN TARGET - Len(acc) ELSE 0
    IN acc \o Take(Pick(rows, fresh), room)

\* lines 125-130: the first occurrences of allrows, in order; the loop
\* breaks once 50 are collected
UniqueOf(rows) == Take(Pick(rows, FirstOccurrences(rows)), TARGET)

\* line 131 with > for >=
Replaces_Strict(u, d) == Len(u) > Len(d)

\* line 131: the consolidated result replaces data
Replaces(u, d) == Len(u) >= Len(d)

\* DataFrame.drop_duplicates(): the first occurrence of every row is kept
DropDuplicates(rows) == Pick(rows, FirstOccurrences(rows))

\* line 134 without drop_duplicates()
RankedList_NoDedup(d) == Take(d, TARGET)

\* line 134
RankedList(d) == Take(DropDuplicates(d), TARGET)

-----------------------------------------------------------------------------
(* load_with_retry *)

LoadPcs == {"load1", "load2", "load3"}

\* min_rows of the three calls (lines 104, 111, 123)
MinRows(p) == IF p = "load3" THEN TARGET ELSE PAGE

\* lines 84-89: d.get() returned and wait_rows() saw min_rows rows in time
Succeeds(navOk, rendered, min_rows) == navOk /\ rendered >= min_rows

\* lines 82-83: another attempt is made
MayAttempt == ret = "none" /\ attempt < TRIES

\* lines 90-92 without the except clause: the exception leaves the function
AttemptRaised_Propagates ==
    /\ nav' = "raised"
    /\ ret' = "none"
    /\ err' = "unexpected"
    /\ pc' = "except"

\* lines 90-92: the attempt raised; the exception is kept and the loop goes on
AttemptRaised ==
    /\ nav' = "raised"
    /\ ret' = IF attempt + 1 = TRIES THEN "False" ELSE "none"
    /\ UNCHANGED <<pc, err>>

\* one pass of the loop of lines 82-92, and lines 93-95 after the last one
LoadAttempt ==
    /\ pc \in LoadPcs
    /\ MayAttempt
    /\ attempt' = attempt + 1
    /\ gets' = gets \cup {pc}
    /\ \E navOk \in BOOLEAN, rendered \in {MinRows(pc) - 1, MinRows(pc)} :
          IF Succeeds(navOk, rendered, MinRows(pc))
          THEN nav' = "ok" /\ ret' = "True" /\ UNCHANGED <<pc, err>>
          ELSE AttemptRaised
    /\ UNCHANGED <<driver, quits, ok1, ok2, ok3, listVars, exported, hist,
                   fetchVars, tailVars, exitStatus>>

\* the call has returned: its locals are gone
FrameDropped == attempt' = 0 /\ nav' = "none" /\ ret' = "none"

-----------------------------------------------------------------------------
(* main(): list acquisition, lines 99-145 *)

\* lines 105-107 and 112-114 with an exit that skips the finally clause
FatalExit_NoFinally == exitStatus' = 1 /\ pc' = "exited"

\* lines 105-107 and 112-114: sys.exit(1) inside the try block
FatalExit == exitStatus' = 1 /\ pc' = "finally"

\* lines 104-107, page 1 did not load
Page1Failed ==
    /\ pc = "load1" /\ ret = "False"
    /\ ok1' = "False"
    /\ FatalExit
    /\ FrameDropped
    /\ UNCHANGED <<driver, quits, gets, ok2, ok3, listVars, exported, hist,
                   fetchVars, tailVars, err>>

\* lines 104-109
ExtractPage1 ==
    /\ pc = "load1" /\ ret = "True"
    /\ ok1' = "True"
    /\ \E rows \in Page1Rows :
          /\ page1' = Take(rows, PAGE)
          /\ data' = page1'
    /\ pc' = "load2"
    /\ FrameDropped
    /\ UNCHANGED <<driver, quits, gets, ok2, ok3, page2, allrows, unique,
                   accumulated, df, exported, hist, fetchVars, tailVars, err,
                   exitStatus>>

\* lines 111-114 without the sys.exit(1): the run goes on with page 1 alone
Page2Failed_Ignored ==
    /\ pc = "load2" /\ ret = "False"
    /\ ok2' = "False"
    /\ accumulated' = data
    /\ pc' = "load3"
    /\ FrameDropped
    /\ UNCHANGED <<driver, quits, gets, ok1, ok3, page1, page2, allrows,
                   unique, data, df, exported, hist, fetchVars, tailVars, err,
                   exitStatus>>

\* lines 111-114, page 2 did not load
Page2Failed ==
    /\ pc = "load2" /\ ret = "False"
    /\ ok2' = "False"
    /\ FatalExit
    /\ FrameDropped
    /\ UNCHANGED <<driver, quits, gets, ok1, ok3, listVars, exported, hist,
                   fetchVars, tailVars, err>>

\* lines 111-122
ExtractPage2 ==
    /\ pc = "load2" /\ ret = "True"
    /\ ok2' = "True"
    /\ \E rows \in Page2Rows :
          /\ page2' = Take(rows, PAGE)
          /\ data' = AppendNew(page2', data)
    /\ accumulated' = data'
    /\ pc' = IF Len(data') < TARGET THEN "load3" ELSE "rank"
    /\ FrameDropped
    /\ UNCHANGED <<driver, quits, gets, ok1, ok3, page1, allrows, unique, df,
                   exported, hist, fetchVars, tailVars, err, exitStatus>>

\* line 123, the consolidated page did not load: data stays as it is
FallbackFailed ==
    /\ pc = "load3" /\ ret = "False"
    /\ ok3' = "False"
    /\ pc' = "rank"
    /\ FrameDropped
    /\ UNCHANGED <<driver, quits, gets, ok1, ok2, listVars, exported, hist,
                   fetchVars, tailVars, err, exitStatus>>

\* lines 123-132
ExtractFallback ==
    /\ pc = "load3" /\ ret = "True"
    /\ ok3' = "True"
    /\ \E rows \in FallbackRows :
          /\ allrows' = rows
          /\ unique' = UniqueOf(rows)
    /\ data' = IF Replaces(unique', data) THEN unique' ELSE data
    /\ pc' = "rank"
    /\ FrameDropped
    /\ UNCHANGED <<driver, quits, gets, ok1, ok2, page1, page2, accumulated,
                   df, exported, hist, fetchVars, tailVars, err, exitStatus>>

\* line 151: the symbols of the ranked list
Symbols(d) == [k \in 1..Len(d) |-> d[k][1]]

\* lines 134-151: the ranked list, its CSV export, the symbols to fetch
BuildRankedList ==
    /\ pc = "rank"
    /\ df' = RankedList(data)
    /\ exported' = exported \cup {"csv"}
    /\ syms' = Symbols(df')
    /\ i' = 0 /\ tries' = 0 /\ reqs' = 0
    /\ pc' = IF Len(syms') > 0 THEN "download" ELSE "fetched"
    /\ UNCHANGED <<driver, quits, gets, loadVars, ok1, ok2, ok3, page1, page2,
                   allrows, unique, accumulated, data, hist, raw, all_adj,
                   skipped, merged, tailVars, err, exitStatus>>

-----------------------------------------------------------------------------
(* The price source.  The history of a symbol is a set of observations;   *)
(* observation d falls in month MonthOf(d).  A table is a record of its   *)
(* index, its columns and its cells, cell[<<c, r>>] = 0 for a missing one. *)

MonthOf(d) == (d + ObsPerMonth - 1) \div ObsPerMonth

FirstObs(m) == (m - 1) * ObsPerMonth + 1

Profiles == {"full", "short", "recent", "staggered", "nodata"}

MonthsOf(h, s) ==
    CASE h = "full" -> 1..MaxMonth
      [] h = "short" -> (MaxMonth - ShortRows + 1)..MaxMonth
      [] h = "recent" -> (MaxMonth - RecentRows + 1)..MaxMonth
      [] h = "staggered" -> IF s <= Cut THEN 1..(MaxMonth - 1) ELSE 2..MaxMonth
      [] h = "nodata" -> IF s <= Cut THEN {} ELSE 1..MaxMonth

\* one observation at the start of each month, and the latest quote of the
\* running month
History(h, s) ==
    {FirstObs(m) : m \in MonthsOf(h, s)}
        \cup (IF MaxMonth \in MonthsOf(h, s) THEN {MaxMonth * ObsPerMonth} ELSE {})

EmptyTable == [idx |-> {}, cols |-> {}, cell |-> <<>>]

\* lines 160-168 and 179: the adjusted closes of the tickers, one column per
\* distinct ticker, one row per date any of them has
AdjClose(h, tickers) ==
    LET dates == UNION {History(h, s) : s \in tickers}
    IN [idx |-> dates, cols |-> tickers,
        cell |-> [x \in tickers \X dates |->
                     IF x[2] \in History(h, x[1]) THEN x[2] ELSE 0]]

Max(S) == CHOOSE x \in S : \A y \in S : y <= x

\* DataFrame.tail(n) on a sorted index: the n last rows
LastRows(S, n) == {r \in S : Cardinality({x \in S : x > r}) < n}

\* line 192 and groupby(index).last(): one row per month, holding for each
\* column the last value of the month that is not missing
MonthlyLast(t) ==
    LET ms == {MonthOf(d) : d \in t.idx}
    IN [idx |-> ms, cols |-> t.cols,
        cell |-> [x \in t.cols \X ms |->
                     Max({0} \cup {t.cell[<<x[1], d>>] :
                                      d \in {e \in t.idx : MonthOf(e) = x[2]}})]]

\* restriction of a table to the rows R
RowsOf(t, R) ==
    [idx |-> R, cols |-> t.cols, cell |-> [x \in t.cols \X R |-> t.cell[x]]]

\* lines 192-193
Normalize(t) == LET g == MonthlyLast(t) IN RowsOf(g, LastRows(g.idx, KEEP))

\* DataFrame.empty
IsEmpty(t) == t.idx = {} \/ t.cols = {}

\* DataFrame.join(how="outer") raises when the two tables share a column
Overlapping(a, b) == a.cols \cap b.cols # {}

\* DataFrame.join(how="outer")
OuterJoin(a, b) ==
    LET rs == a.idx \cup b.idx
        cs == a.cols \cup b.cols
    IN [idx |-> rs, cols |-> cs,
        cell |-> [x \in cs \X rs |->
                     IF x[1] \in a.cols
                     THEN (IF x[2] \in a.idx THEN a.cell[x] ELSE 0)
                     ELSE (IF x[2] \in b.idx THEN b.cell[x] ELSE 0)]]

\* line 195
Merge(acc, adj_b) == IF IsEmpty(acc) THEN adj_b ELSE OuterJoin(acc, adj_b)

\* line 156: the tickers of the batch at offset k
BatchOf(symbols, k) == {symbols[j] : j \in (k + 1)..Min(k + BATCH, Len(symbols))}

-----------------------------------------------------------------------------
(* fetch_adj, lines 153-198 *)

\* line 158 with one request more
MayDownload_Thrice == tries < DL_TRIES + 1

\* line 158
MayDownload == tries < DL_TRIES

\* line 155: the loop moves to the next batch, or ends and line 197 returns
NextBatch ==
    /\ i' = i + BATCH
    /\ tries' = 0 /\ reqs' = 0 /\ raw' = "none"
    /\ pc' = IF i + BATCH < Len(syms) THEN "download" ELSE "fetched"

\* lines 158-172: one request for the batch; it raises or it answers, with
\* or without the "Adj Close" field
Download ==
    /\ pc = "download"
    /\ MayDownload
    /\ reqs' = reqs + 1
    /\ \E answer \in {"raise", "adj", "noadj"} :
          IF answer = "raise"
          THEN tries' = tries + 1 /\ UNCHANGED <<pc, raw>>
          ELSE raw' = answer /\ pc' = "batch" /\ UNCHANGED tries
    /\ UNCHANGED <<driver, quits, gets, loadVars, ok1, ok2, ok3, listVars,
                   exported, hist, syms, i, all_adj, skipped, merged,
                   tailVars, err, exitStatus>>

\* lines 173-174: every request raised, the batch is skipped
GiveUp ==
    /\ pc = "download"
    /\ ~MayDownload
    /\ skipped' = skipped \cup {i}
    /\ NextBatch
    /\ UNCHANGED <<driver, quits, gets, loadVars, ok1, ok2, ok3, listVars,
                   exported, hist, syms, all_adj, merged, tailVars, err,
                   exitStatus>>

\* lines 176-182: the answer has no "Adj Close" field, the batch is skipped
NoAdjClose ==
    /\ pc = "batch" /\ raw = "noadj"
    /\ skipped' = skipped \cup {i}
    /\ NextBatch
    /\ UNCHANGED <<driver, quits, gets, loadVars, ok1, ok2, ok3, listVars,
                   exported, hist, syms, all_adj, merged, tailVars, err,
                   exitStatus>>

\* lines 176-195: the batch is normalized and joined to the table
MergeBatch ==
    /\ pc = "batch" /\ raw = "adj"
    /\ LET adj_b == Normalize(AdjClose(hist, BatchOf(syms, i)))
       IN IF ~IsEmpty(all_adj) /\ Overlapping(all_adj, adj_b)
          THEN /\ err' = "overlap"
               /\ pc' = "except"
               /\ UNCHANGED <<i, tries, reqs, raw, all_adj, merged>>
          ELSE /\ all_adj' = Merge(all_adj, adj_b)
               /\ merged' = merged \cup {i}
               /\ NextBatch
               /\ UNCHANGED err
    /\ UNCHANGED <<driver, quits, gets, loadVars, ok1, ok2, ok3, listVars,
                   exported, hist, syms, skipped, tailVars, exitStatus>>

-----------------------------------------------------------------------------
(* main(): lines 200-301 *)

\* lines 200-227: the wide export, prices = adj.sort_index()
ExportHistory ==
    /\ pc = "fetched"
    /\ exported' = exported \cup {"hist"}
    /\ prices' = all_adj
    /\ pc' = "check"
    /\ UNCHANGED <<driver, quits, gets, loadVars, ok1, ok2, ok3, listVars,
                   hist, fetchVars, computed, months, err, exitStatus>>

\* line 229 with a threshold that lets a short table through
TooShort_Lenient(t) == Cardinality(t.idx) < ShortRows

\* line 229
TooShort(t) == Cardinality(t.idx) < MIN_POINTS

\* lines 229-230
CheckHistory ==
    /\ pc = "check"
    /\ IF TooShort(prices)
       THEN err' = "insufficient" /\ pc' = "except"
       ELSE err' = err /\ pc' = "compute"
    /\ UNCHANGED <<driver, quits, gets, loadVars, ok1, ok2, ok3, listVars,
                   exported, hist, fetchVars, tailVars, exitStatus>>

\* lines 268-269: the rows of prices from position 5 on, less the first
Last6(idx) == {r \in idx : Cardinality({x \in idx : x < r}) > ANCHOR}

\* lines 232-284: returns, scores, selection and summary
Compute ==
    /\ pc = "compute"
    /\ computed' = TRUE
    /\ months' = Cardinality(Last6(prices.idx))
    /\ pc' = "export"
    /\ UNCHANGED <<driver, quits, gets, loadVars, ok1, ok2, ok3, listVars,
                   exported, hist, fetchVars, prices, err, exitStatus>>

\* lines 286-295
ExportPortfolio ==
    /\ pc = "export"
    /\ exported' = exported \cup {"port"}
    /\ pc' = "finally"
    /\ UNCHANGED <<driver, quits, gets, loadVars, ok1, ok2, ok3, listVars,
                   hist, fetchVars, tailVars, err, exitStatus>>

\* a statement of the try block outside load_with_retry and fetch_adj's
\* handlers raises: extracting rows, writing a file
Unexpected ==
    /\ pc \in {"rank", "fetched", "export"}
    /\ err' = "unexpected"
    /\ pc' = "except"
    /\ UNCHANGED <<driver, quits, gets, loadVars, ok1, ok2, ok3, listVars,
                   exported, hist, fetchVars, tailVars, exitStatus>>

\* lines 297-299
Except ==
    /\ pc = "except"
    /\ exitStatus' = 1
    /\ pc' = "finally"
    /\ UNCHANGED <<driver, quits, gets, loadVars, ok1, ok2, ok3, listVars,
                   exported, hist, fetchVars, tailVars, err>>

\* lines 300-301
Finally ==
    /\ pc = "finally"
    /\ driver' = "quit"
    /\ quits' = quits + 1
    /\ pc' = "exited"
    /\ UNCHANGED <<gets, loadVars, ok1, ok2, ok3, listVars, exported, hist,
                   fetchVars, tailVars, err, exitStatus>>

-----------------------------------------------------------------------------

\* line 99: the driver is built; nothing has been loaded yet
Init ==
    /\ pc = "load1"
    /\ driver = "open" /\ quits = 0 /\ gets = {}
    /\ attempt = 0 /\ nav = "none" /\ ret = "none"
    /\ ok1 = "unset" /\ ok2 = "unset" /\ ok3 = "unset"
    /\ page1 = <<>> /\ page2 = <<>> /\ allrows = <<>> /\ unique = <<>>
    /\ accumulated = <<>> /\ data = <<>> /\ df = <<>>
    /\ exported = {}
    /\ hist \in Profiles
    /\ syms = <<>> /\ i = 0 /\ tries = 0 /\ reqs = 0 /\ raw = "none"
    /\ all_adj = EmptyTable
    /\ skipped = {} /\ merged = {}
    /\ prices = EmptyTable /\ computed = FALSE /\ months = 0
    /\ err = "none" /\ exitStatus = 0

Next ==
    \/ LoadAttempt
    \/ Page1Failed
    \/ ExtractPage1
    \/ Page2Failed
    \/ ExtractPage2
    \/ FallbackFailed
    \/ ExtractFallback
    \/ BuildRankedList
    \/ Download
    \/ GiveUp
    \/ NoAdjClose
    \/ MergeBatch
    \/ ExportHistory
    \/ CheckHistory
    \/ Compute
    \/ ExportPortfolio
    \/ Unexpected
    \/ Except
    \/ Finally

Spec == Init /\ [][Next]_vars

-----------------------------------------------------------------------------
(* Properties of the list acquisition *)

\* line 134 has run: df is the final ranked list
Listed == "csv" \in exported

\* the rows the two mandatory pages contributed, page 1 first
TwoPages == page1 \o page2

\* C1: however the pages overlap or repeat entries, the final ranked list
\* holds every (symbol, name) pair at most once.
C1_NoDuplicatePairs == Listed => NoDuplicates(df)

\* page 1 repeats an entry, page 2 overlaps page 1, the fallback page was
\* loaded and repeats entries too, and data still holds a repeated pair
C1_Witness ==
    /\ Listed
    /\ ~NoDuplicates(page1)
    /\ Range(page1) \cap Range(page2) # {}
    /\ ok3 = "True" /\ ~NoDuplicates(allrows)
    /\ ~NoDuplicates(data)
    /\ Len(df) > 0

\* C2: once the list is acquired it has at most 50 entries, and exactly 50
\* whenever page 1, page 2 and the fallback page hold 50 distinct pairs
\* between them.
C2_FullWhenAvailable ==
    Listed =>
        /\ Len(df) <= 50
        /\ (Cardinality(Range(page1) \cup Range(page2) \cup Range(allrows)) >= 50
               => Len(df) = 50)

\* C3: the final list keeps the first-seen order of page 1 followed by
\* page 2, also in the runs that loaded the fallback page.
C3_FirstSeenOrder ==
    Listed =>
        \A x, y \in 1..Len(df) :
            (/\ df[x] \in Range(TwoPages)
             /\ df[y] \in Range(TwoPages)
             /\ FirstPos(TwoPages, df[x]) < FirstPos(TwoPages, df[y]))
                => FirstPos(df, df[x]) < FirstPos(df, df[y])

-----------------------------------------------------------------------------
(* Properties of the run as a whole *)

\* the statements of the try block, handler included
InTry == pc \notin {"finally", "exited"}

\* C4: on every exit path the driver is released exactly once: whatever
\* leaves the try block (its end, a sys.exit, the handler) enters the finally
\* clause, which can always run and quits the driver as the run exits; the
\* driver is quit once, when the run has exited and not before, and nothing
\* is loaded after that.
C4_ReleasedOnce ==
    /\ [](/\ quits <= 1
          /\ (pc = "exited" <=> quits = 1)
          /\ (driver = "quit" <=> quits = 1)
          /\ (pc = "finally" => ENABLED Finally)
          /\ (pc = "except" => ENABLED Except))
    /\ [][/\ (InTry /\ ~InTry' => pc' = "finally")
          /\ (exitStatus' # exitStatus => pc' = "finally")
          /\ (pc = "finally" =>
                 pc' = "exited" /\ quits' = quits + 1 /\ driver' = "quit")
          /\ (driver = "quit" => gets' = gets /\ attempt' = attempt)
          /\ pc # "exited"]_vars

\* the run has exited through the sys.exit(1) of line 107
C4_Witness == pc = "exited" /\ ok1 = "False" /\ quits = 1 /\ exitStatus = 1

\* no batch was requested and nothing was exported
NothingFetched ==
    /\ reqs = 0 /\ i = 0 /\ raw = "none"
    /\ merged = {} /\ skipped = {} /\ all_adj = EmptyTable
    /\ exported = {} /\ df = <<>> /\ ~computed

\* C5: when the retried load of page 1 or of page 2 fails the run aborts
\* with status 1: the failed page yields no rows, no later page is loaded,
\* no batch is requested and nothing is exported, whatever page 1 gave.
C5_MandatoryPages ==
    /\ [](ok1 = "False" =>
            /\ pc \in {"finally", "exited"} /\ exitStatus = 1
            /\ page1 = <<>> /\ data = <<>> /\ gets = {"load1"}
            /\ NothingFetched)
    /\ [](ok2 = "False" =>
            /\ pc \in {"finally", "exited"} /\ exitStatus = 1
            /\ page2 = <<>> /\ data = page1 /\ allrows = <<>>
            /\ gets = {"load1", "load2"}
            /\ NothingFetched)
    /\ [][(pc \in {"load1", "load2"} /\ ret = "False")
             => (pc' = "finally" /\ exitStatus' = 1 /\ data' = data)]_vars

\* page 2 failed after page 1 had given its rows, and the run has exited
C5_Witness ==
    /\ pc = "exited" /\ ok2 = "False" /\ Len(page1) > 0 /\ exitStatus = 1

\* line 227 has run: prices is the unified table
Priced == "hist" \in exported

\* C6: a unified table of fewer than 7 rows raises the insufficient-history
\* error before anything is computed and the run exits with status 1; a
\* table of 7 rows or more never raises it.
C6_InsufficientHistory ==
    /\ (computed \/ pc \in {"compute", "export"}
           => Cardinality(prices.idx) >= 7 /\ err # "insufficient")
    /\ (err = "insufficient" =>
           /\ Priced /\ Cardinality(prices.idx) < 7
           /\ ~computed /\ months = 0 /\ "port" \notin exported
           /\ pc \in {"except", "finally", "exited"}
           /\ (pc # "except" => exitStatus = 1))
    /\ (Priced /\ pc # "check" /\ Cardinality(prices.idx) < 7
           => err = "insufficient")

\* a table of 5 rows was refused and the run has exited
C6_Witness ==
    /\ pc = "exited" /\ err = "insufficient"
    /\ Cardinality(prices.idx) = ShortRows /\ prices.cols # {}

-----------------------------------------------------------------------------
(* Properties of fetch_adj *)

\* the offsets of the batches of the symbol list
Offsets == {k \in 0..Len(syms) : k % BATCH = 0 /\ k < Len(syms)}

\* the symbols of the batches that were merged
MergedSymbols == UNION {BatchOf(syms, k) : k \in merged}

\* C7: the table fetch_adj returns has the rows, columns and cells of one
\* fetch of all the symbols of the batches that did not fail.
C7_MergeEqualsSingleFetch ==
    pc = "fetched" => all_adj = Normalize(AdjClose(hist, MergedSymbols))

-----------------------------------------------------------------------------
(* Properties of load_with_retry *)

\* C9: load_with_retry makes at most 3 attempts, makes another one only
\* while none has succeeded, returns True as soon as one succeeds, returns
\* False exactly when the third has failed, and no attempt's exception
\* reaches the caller.
C9_BoundedRetry ==
    /\ [](/\ attempt <= 3
          /\ (ret = "True" <=> nav = "ok")
          /\ (ret = "False" <=> (attempt = 3 /\ nav = "raised"))
          /\ (ret # "none" => pc \in LoadPcs /\ attempt >= 1))
    /\ [][/\ (attempt' > attempt =>
                 /\ attempt' = attempt + 1
                 /\ ret = "none" /\ nav # "ok"
                 /\ ret' = (IF nav' = "ok" THEN "True"
                            ELSE IF attempt' = 3 THEN "False" ELSE "none"))
          /\ (pc \in LoadPcs /\ ret = "none" =>
                 pc' = pc /\ err' = "none" /\ exitStatus' = 0
                 /\ attempt' = attempt + 1)]_vars

\* the second attempt succeeded after the first had failed
C9_Witness == ret = "True" /\ attempt = 2 /\ pc = "load2"

-----------------------------------------------------------------------------
(* Properties of the fallback page *)

\* u holds the first occurrences of rows, in order, cut at 50
IsFirst50(u, rows) ==
    /\ NoDuplicates(u) /\ Len(u) <= 50
    /\ Range(u) \subseteq Range(rows)
    /\ (Len(u) < 50 => Range(u) = Range(rows))
    /\ \A x, y \in 1..Len(u) :
          x < y => FirstPos(rows, u[x]) < FirstPos(rows, u[y])
    /\ \A e \in Range(rows) \ Range(u) :
          FirstPos(rows, e) > FirstPos(rows, u[Len(u)])

\* line 122 or lines 123-132 have run: data is what line 134 will read
Acquired == pc = "rank" \/ Listed

\* C10 as stated: the fallback page is loaded only below 50 accumulated
\* entries; a failed load leaves the entries as they are; a loaded page
\* replaces them exactly when it has at least as many unique entries as
\* they have unique entries.
C10_ReplacesOnUniqueCount ==
    /\ ("load3" \in gets => Len(accumulated) < 50)
    /\ (Acquired /\ ok3 = "False" => data = accumulated)
    /\ (Acquired /\ ok3 = "True" =>
           /\ (pc = "rank" => IsFirst50(unique, allrows))
           /\ (data = unique <=>
                  Len(unique) >= Cardinality(Range(accumulated)))
           /\ (data # unique => data = accumulated))
    /\ (Listed => Len(df) >= Cardinality(Range(accumulated)))

\* C10 amended: a loaded fallback page replaces the accumulated entries
\* exactly when its unique entries are at least as many as the accumulated
\* rows, a pair repeated within page 1 counting each time it occurs.
C10_ReplacesOnRowCount ==
    /\ ("load3" \in gets => Len(accumulated) < 50)
    /\ (Acquired /\ ok3 = "unset" =>
           data = accumulated /\ Len(data) >= 50 /\ "load3" \notin gets)
    /\ (Acquired /\ ok3 = "False" => data = accumulated /\ allrows = <<>>)
    /\ (Acquired /\ ok3 = "True" =>
           /\ (pc = "rank" => IsFirst50(unique, allrows))
           /\ (Len(unique) >= Len(accumulated) => data = unique)
           /\ (Len(unique) < Len(accumulated) => data = accumulated))
    /\ (Listed => Len(df) >= Cardinality(Range(accumulated)))

\* the fallback page was loaded, repeats rows, and its result took the
\* place of different accumulated entries
C10_Witness ==
    /\ Listed /\ ok3 = "True"
    /\ ~NoDuplicates(allrows)
    /\ data = unique /\ unique # accumulated

-----------------------------------------------------------------------------
(* Properties of the later window *)

\* the rows of t at the 0-indexed positions lo..hi
RowsAt(t, lo, hi) ==
    {r \in t.idx : Cardinality({x \in t.idx : x < r}) \in lo..hi}

\* C11: whenever the table has passed the 7-row check, the later window is
\* made of the rows at positions 6..11, so that it holds 6 returns per
\* symbol and the summary counts 6 months, whatever the number of rows.
C11_LaterWindowIsSix ==
    computed =>
        /\ Last6(prices.idx) = RowsAt(prices, 6, 11)
        /\ Cardinality(Last6(prices.idx)) = 6
        /\ months = 6

====
